---- MODULE Spec2Model ----
(***************************************************************************)
(* A model of twisted/python/logger/_filter.py: the predicate chain        *)
(* evaluator shouldLogEvent, the FilteringLogObserver that forwards the    *)
(* events the chain accepts, and the LogLevelFilterPredicate with its      *)
(* namespace -> level mapping.                                             *)
(*                                                                         *)
(* A namespace string is a sequence of one-character strings, so that      *)
(* str.split(".") and ".".join(...) are computed character by character.   *)
(* Python's None is the one-element sequence NoneKey as a namespace / dict *)
(* key, and the string "None" as a level.                                  *)
(***************************************************************************)
EXTENDS Integers, Sequences, FiniteSets, TLC

VARIABLES
    logLevelsByNamespace,  \* LogLevelFilterPredicate._logLevelsByNamespace (a dict)
    defaultLogLevel,       \* LogLevelFilterPredicate.defaultLogLevel
    predicates,            \* the list FilteringLogObserver.__init__ froze into _shouldLogEvent
    caller,                \* the collection the caller gave to FilteringLogObserver
    last,                  \* the last completed call: its arguments and its outcome
    writer,                \* a thread inside clearLogLevels: where it is
    reader                 \* a thread inside logLevelForNamespace: where it is, its locals

vars ==
    <<logLevelsByNamespace, defaultLogLevel, predicates, caller, last, writer, reader>>

threads == <<caller, writer, reader>>

----------------------------------------------------------------------------
(* Bounds *)

\* longest namespace string passed to logLevelForNamespace / carried by an event
MaxNsLen == 5

\* longest namespace string carried by an event given to the level predicate
MaxEventNsLen == 3

\* longest predicate list given to FilteringLogObserver
MaxPreds == 3

\* longest predicate list of a caller that goes on changing its list
MaxCallerPreds == 2

\* most setLogLevelForNamespace calls made before the threads start
MaxSetup == 3

----------------------------------------------------------------------------
(* Strings *)

Alphabet == {"a", "."}

RECURSIVE StringsUpTo(_)
StringsUpTo(n) ==
    IF n = 0 THEN {<<>>}
    ELSE LET shorter == StringsUpTo(n - 1)
         IN  shorter \cup {Append(s, c) : s \in {p \in shorter : Len(p) = n - 1},
                                          c \in Alphabet}

NoneKey == <<"None">>

NsA == <<"a">>
NsAA == <<"a", "a">>
NsADotAA == <<"a", ".", "a", "a">>
NsADotA == <<"a", ".", "a">>

\* every namespace a caller may ask about: None, "", and the strings up to MaxNsLen
Namespaces == StringsUpTo(MaxNsLen) \cup {NoneKey}

\* the namespaces setLogLevelForNamespace is called with: None, "", "a", "a.a"
SetNamespaces == {NoneKey, <<>>, NsA, NsADotA}

\* str.split("."), scanning from character i with the current segment cur
RECURSIVE SplitFrom(_, _, _, _)
SplitFrom(s, i, cur, acc) ==
    IF i > Len(s) THEN Append(acc, cur)
    ELSE IF s[i] = "." THEN SplitFrom(s, i + 1, <<>>, Append(acc, cur))
    ELSE SplitFrom(s, i + 1, Append(cur, s[i]), acc)

split(s) == SplitFrom(s, 1, <<>>, <<>>)

\* ".".join(segs)
RECURSIVE join(_)
join(segs) ==
    IF Len(segs) = 0 THEN <<>>
    ELSE IF Len(segs) = 1 THEN segs[1]
    ELSE segs[1] \o <<".">> \o join(Tail(segs))

\* Python truthiness of a namespace argument: None and "" are falsy
Truthy(namespace) == namespace # NoneKey /\ namespace # <<>>

----------------------------------------------------------------------------
(* Levels (twisted.python.logger._levels) *)

\* LogLevel.iterconstants(), in definition order
LogLevelConstants == <<"debug", "info", "warn", "error", "critical">>

LogLevel == {LogLevelConstants[i] : i \in DOMAIN LogLevelConstants}

\* LogLevel._priorityForLevel: the index of the constant in definition order
priorityForLevel(level) ==
    CHOOSE i \in DOMAIN LogLevelConstants : LogLevelConstants[i] = level

\* the defaults the predicate is constructed with
DefaultLevels == {"info", "warn"}

\* the levels setLogLevelForNamespace is called with; "bogus" is no LogLevel
SetLevels == {"debug", "error", "bogus"}

----------------------------------------------------------------------------
(* LogLevelFilterPredicate *)

\* dict subscript d[key]: the value, or KeyError
getitem(d, key) == IF key \in DOMAIN d THEN d[key] ELSE "KeyError"

\* dict store d[key] = value
setitem(d, key, value) ==
    [k \in DOMAIN d \cup {key} |-> IF k = key THEN value ELSE d[k]]

\* dict.clear()
EmptyDict == [k \in {} |-> "None"]

\* the while loop of logLevelForNamespace, from the given index down
RECURSIVE ancestorSearch(_, _, _)
ancestorSearch(d, segments, index) ==
    IF index > 0
    THEN LET namespace == join(SubSeq(segments, 1, index))
         IN  IF namespace \in DOMAIN d
             THEN getitem(d, namespace)
             ELSE ancestorSearch(d, segments, index - 1)
    ELSE getitem(d, NoneKey)

\* a variant that walks the ancestors from the shortest prefix up
RECURSIVE ancestorSearchUp(_, _, _)
ancestorSearchUp(d, segments, index) ==
    IF index < Len(segments)
    THEN LET namespace == join(SubSeq(segments, 1, index))
         IN  IF namespace \in DOMAIN d
             THEN getitem(d, namespace)
             ELSE ancestorSearchUp(d, segments, index + 1)
    ELSE getitem(d, NoneKey)

logLevelForNamespaceShortestFirst(d, namespace) ==
    IF ~Truthy(namespace) THEN getitem(d, NoneKey)
    ELSE IF namespace \in DOMAIN d THEN getitem(d, namespace)
    ELSE ancestorSearchUp(d, split(namespace), 1)

\* a variant that takes any configured leading substring for an ancestor
RECURSIVE prefixSearch(_, _, _)
prefixSearch(d, s, n) ==
    IF n > 0
    THEN IF SubSeq(s, 1, n) \in DOMAIN d
         THEN getitem(d, SubSeq(s, 1, n))
         ELSE prefixSearch(d, s, n - 1)
    ELSE getitem(d, NoneKey)

logLevelForNamespaceCharPrefix(d, namespace) ==
    IF ~Truthy(namespace) THEN getitem(d, NoneKey)
    ELSE prefixSearch(d, namespace, Len(namespace))

\* logLevelForNamespace(namespace) on the mapping d: a level, or "KeyError"
logLevelForNamespace(d, namespace) ==
    IF ~Truthy(namespace) THEN getitem(d, NoneKey)
    ELSE IF namespace \in DOMAIN d THEN getitem(d, namespace)
    ELSE LET segments == split(namespace)
         IN  ancestorSearch(d, segments, Len(segments) - 1)

\* a variant that keeps the level a key already has
setLogLevelForNamespaceKeepFirst(d, namespace, level) ==
    LET key == IF Truthy(namespace) THEN namespace ELSE NoneKey
    IN  IF level \notin LogLevel
        THEN [map |-> d, raised |-> "InvalidLogLevelError"]
        ELSE [map |-> IF key \in DOMAIN d THEN d ELSE setitem(d, key, level),
              raised |-> "None"]

\* the keys the while loop of logLevelForNamespace tests for membership (line
\* 151), in the order it tests them, starting from the first index segments
RECURSIVE ancestorsTestedFrom(_, _, _)
ancestorsTestedFrom(d, segments, index) ==
    IF index > 0
    THEN LET namespace == join(SubSeq(segments, 1, index))
         IN  IF namespace \in DOMAIN d
             THEN <<namespace>>
             ELSE <<namespace>> \o ancestorsTestedFrom(d, segments, index - 1)
    ELSE <<>>

\* a variant whose loop starts at the full namespace
ancestorsTestedOffByOne(d, segments) ==
    ancestorsTestedFrom(d, segments, Len(segments))

\* index = len(segments) - 1, then the loop
ancestorsTested(d, segments) ==
    ancestorsTestedFrom(d, segments, Len(segments) - 1)

\* the keys the ancestor search of logLevelForNamespace(namespace) tests
keysTested(d, namespace) ==
    IF ~Truthy(namespace) THEN <<>>
    ELSE IF namespace \in DOMAIN d THEN <<>>
    ELSE ancestorsTested(d, split(namespace))

\* a variant that stores the level before it validates it
setLogLevelForNamespaceStoreFirst(d, namespace, level) ==
    [map |-> setitem(d, IF Truthy(namespace) THEN namespace ELSE NoneKey, level),
     raised |-> IF level \notin LogLevel THEN "InvalidLogLevelError" ELSE "None"]

\* setLogLevelForNamespace(namespace, level): the mapping after, and what was raised
setLogLevelForNamespace(d, namespace, level) ==
    IF level \notin LogLevel
    THEN [map |-> d, raised |-> "InvalidLogLevelError"]
    ELSE IF Truthy(namespace)
         THEN [map |-> setitem(d, namespace, level), raised |-> "None"]
         ELSE [map |-> setitem(d, NoneKey, level), raised |-> "None"]

\* a variant that drops the explicit entries and keeps the root level as it is
clearLogLevelsKeepRoot(d, default) ==
    setitem(EmptyDict, NoneKey, IF NoneKey \in DOMAIN d THEN d[NoneKey] ELSE default)

\* a variant that does not seed the root key again
clearLogLevelsNoReseed(d, default) == EmptyDict

\* clearLogLevels(): the mapping after
clearLogLevels(d, default) == setitem(EmptyDict, NoneKey, default)

\* LogLevelFilterPredicate.__init__(defaultLogLevel): the mapping after construction
LogLevelFilterPredicateInit(default) == clearLogLevels(EmptyDict, default)

\* an event: log_level and log_namespace are "None" / NoneKey when absent or None;
\* has_trace says whether the key "log_trace" is in the event
NoEvent ==
    [log_level |-> "None", log_namespace |-> NoneKey, has_trace |-> FALSE,
     log_trace |-> <<>>]

\* a variant that also denies an event exactly at the threshold
LogLevelFilterPredicateCallStrict(d, event) ==
    LET namespaceLevel == logLevelForNamespace(d, event.log_namespace)
    IN  IF namespaceLevel = "KeyError" THEN "KeyError"
        ELSE IF \/ event.log_level = "None"
                \/ event.log_namespace = NoneKey
                \/ priorityForLevel(event.log_level) <= priorityForLevel(namespaceLevel)
             THEN "no"
             ELSE "maybe"

\* LogLevelFilterPredicate.__call__(event): a PredicateResult ("yes", "no", "maybe")
LogLevelFilterPredicateCall(d, event) ==
    LET eventLevel == event.log_level
        namespace == event.log_namespace
        namespaceLevel == logLevelForNamespace(d, namespace)
    IN  IF namespaceLevel = "KeyError" THEN "KeyError"
        ELSE IF \/ eventLevel = "None"
                \/ namespace = NoneKey
                \/ priorityForLevel(eventLevel) < priorityForLevel(namespaceLevel)
             THEN "no"
             ELSE "maybe"

----------------------------------------------------------------------------
(* shouldLogEvent and FilteringLogObserver *)

\* a predicate is the LogLevelFilterPredicate ("levelFilter") or a callable that
\* returns the same value for every event: a PredicateResult, or "invalid"
PredicateKinds == {"yes", "no", "maybe", "invalid", "levelFilter"}

RECURSIVE ListsUpTo(_)
ListsUpTo(n) ==
    IF n = 0 THEN {<<>>}
    ELSE LET shorter == ListsUpTo(n - 1)
         IN  shorter \cup {Append(s, p) : s \in {q \in shorter : Len(q) = n - 1},
                                          p \in PredicateKinds}

\* predicate(event)
callPredicate(d, predicate, event) ==
    IF predicate = "levelFilter" THEN LogLevelFilterPredicateCall(d, event)
    ELSE predicate

\* a variant that takes "yes" for no opinion
onResultIgnoreYes(result) ==
    IF result = "no" THEN "return False"
    ELSE IF result \in {"yes", "maybe"} THEN "continue"
    ELSE IF result = "KeyError" THEN "raise KeyError"
    ELSE "raise TypeError"

\* a variant that takes any unknown value for no opinion
onResultUnknownAsMaybe(result) ==
    IF result = "yes" THEN "return True"
    ELSE IF result = "no" THEN "return False"
    ELSE IF result = "KeyError" THEN "raise KeyError"
    ELSE "continue"

\* what the loop body of shouldLogEvent does with a predicate's result
\* (an exception raised inside the predicate passes through)
onResult(result) ==
    IF result = "yes" THEN "return True"
    ELSE IF result = "no" THEN "return False"
    ELSE IF result = "maybe" THEN "continue"
    ELSE IF result = "KeyError" THEN "raise KeyError"
    ELSE "raise TypeError"

\* a variant that drops the event when no predicate has an opinion
shouldLogEventDenyByDefault == "False"

\* what shouldLogEvent returns when the predicates run out
shouldLogEventDefault == "True"

\* shouldLogEvent from predicate i on; calls lists the predicates invoked so far
RECURSIVE shouldLogEventFrom(_, _, _, _, _)
shouldLogEventFrom(d, preds, event, i, calls) ==
    IF i > Len(preds)
    THEN [result |-> shouldLogEventDefault, raised |-> "None", calls |-> calls]
    ELSE LET result == callPredicate(d, preds[i], event)
             invoked == Append(calls, i)
             do == onResult(result)
         IN  IF do = "return True"
             THEN [result |-> "True", raised |-> "None", calls |-> invoked]
             ELSE IF do = "return False"
             THEN [result |-> "False", raised |-> "None", calls |-> invoked]
             ELSE IF do = "continue"
             THEN shouldLogEventFrom(d, preds, event, i + 1, invoked)
             ELSE IF do = "raise KeyError"
             THEN [result |-> "None", raised |-> "KeyError", calls |-> invoked]
             ELSE [result |-> "None", raised |-> "TypeError", calls |-> invoked]

shouldLogEvent(d, preds, event) == shouldLogEventFrom(d, preds, event, 1, <<>>)

\* FilteringLogObserver.__init__: list(predicates), a copy in the same order
FilteringLogObserverInit(preds) == [i \in 1..Len(preds) |-> preds[i]]

\* a variant that keeps the caller's list object itself
FilteringLogObserverSharesList == FALSE

\* list(predicates) is a new list object: no later change of the caller's
\* collection shows in it
FilteringLogObserverCopiesList == TRUE

\* the instance attributes __init__ assigns
FilteringLogObserverAttributes == {"_observer", "_shouldLogEvent"}

\* the pair __call__ appends to event["log_trace"]
TraceEntry == "(self, self.observer)"

\* a variant that calls the wrapped observer whatever the predicates decide
FilteringLogObserverCallAlways(d, preds, event) ==
    LET should == shouldLogEvent(d, preds, event)
    IN  [raised |-> should.raised, calls |-> should.calls,
         has_trace |-> event.has_trace, trace |-> event.log_trace,
         delivered |-> IF should.raised = "None" THEN 1 ELSE 0]

\* a variant that creates the trace list when the event has none
FilteringLogObserverCallSetDefault(d, preds, event) ==
    LET should == shouldLogEvent(d, preds, event)
    IN  IF should.raised = "None" /\ should.result = "True"
        THEN [raised |-> "None", calls |-> should.calls, has_trace |-> TRUE,
              trace |-> Append(event.log_trace, TraceEntry), delivered |-> 1]
        ELSE [raised |-> should.raised, calls |-> should.calls,
              has_trace |-> event.has_trace, trace |-> event.log_trace,
              delivered |-> 0]

\* FilteringLogObserver.__call__(event): what is raised, the event's trace
\* afterwards, and how often the wrapped observer was called
FilteringLogObserverCall(d, preds, event) ==
    LET should == shouldLogEvent(d, preds, event)
        untouched == [raised |-> "None", calls |-> should.calls,
                      has_trace |-> event.has_trace, trace |-> event.log_trace,
                      delivered |-> 0]
    IN  IF should.raised # "None"
        THEN [untouched EXCEPT !.raised = should.raised]
        ELSE IF should.result = "True"
        THEN IF event.has_trace
             THEN IF "observer" \in FilteringLogObserverAttributes
                  THEN [untouched EXCEPT
                            !.trace = Append(event.log_trace, TraceEntry),
                            !.delivered = 1]
                  ELSE [untouched EXCEPT !.raised = "AttributeError"]
             ELSE [untouched EXCEPT !.delivered = 1]
        ELSE untouched

----------------------------------------------------------------------------
(* The calls, as actions.  Each records its arguments and outcome in last. *)

\* before is the mapping as the call found it
Call(op) ==
    [op |-> op, before |-> logLevelsByNamespace, namespace |-> NoneKey,
     level |-> "None", event |-> NoEvent, result |-> "None", raised |-> "None",
     calls |-> <<>>, tested |-> <<>>, has_trace |-> FALSE, trace |-> <<>>,
     delivered |-> 0]

\* the caller's collection as it is now, and as it was given to __init__
Supplied(preds) == [predicates |-> preds, supplied |-> preds]

\* no thread is inside a call
WriterIdle == [pc |-> "idle", before |-> EmptyDict]
ReaderIdle ==
    [pc |-> "idle", namespace |-> NoneKey, segments |-> <<>>, index |-> 0,
     candidate |-> NoneKey, result |-> "None", raised |-> "None",
     snapshots |-> {}]

\* the events LogLevelFilterPredicate.__call__ is given directly
LevelEvents ==
    {[NoEvent EXCEPT !.log_level = l, !.log_namespace = n] :
        l \in LogLevel \cup {"None"},
        n \in StringsUpTo(MaxEventNsLen) \cup {NoneKey}}

SetLogLevelForNamespace(namespace, level) ==
    LET r == setLogLevelForNamespace(logLevelsByNamespace, namespace, level)
    IN  /\ logLevelsByNamespace' = r.map
        /\ last' = [Call("setLogLevelForNamespace") EXCEPT
                      !.namespace = namespace, !.level = level,
                      !.raised = r.raised]
        /\ UNCHANGED <<defaultLogLevel, predicates, threads>>

ClearLogLevels ==
    /\ logLevelsByNamespace' = clearLogLevels(logLevelsByNamespace, defaultLogLevel)
    /\ last' = Call("clearLogLevels")
    /\ UNCHANGED <<defaultLogLevel, predicates, threads>>

\* a variant that remembers the level it found under the namespace asked for
LogLevelForNamespaceCaching(namespace) ==
    LET r == logLevelForNamespace(logLevelsByNamespace, namespace)
    IN  /\ logLevelsByNamespace' =
               IF Truthy(namespace) /\ r # "KeyError"
               THEN setitem(logLevelsByNamespace, namespace, r)
               ELSE logLevelsByNamespace
        /\ last' = [Call("logLevelForNamespace") EXCEPT
                      !.namespace = namespace,
                      !.tested = keysTested(logLevelsByNamespace, namespace),
                      !.result = IF r = "KeyError" THEN "None" ELSE r,
                      !.raised = IF r = "KeyError" THEN r ELSE "None"]
        /\ UNCHANGED <<defaultLogLevel, predicates, threads>>

LogLevelForNamespace(namespace) ==
    LET r == logLevelForNamespace(logLevelsByNamespace, namespace)
    IN  /\ last' = [Call("logLevelForNamespace") EXCEPT
                      !.namespace = namespace,
                      !.tested = keysTested(logLevelsByNamespace, namespace),
                      !.result = IF r = "KeyError" THEN "None" ELSE r,
                      !.raised = IF r = "KeyError" THEN r ELSE "None"]
        /\ UNCHANGED <<logLevelsByNamespace, defaultLogLevel, predicates, threads>>

CallLevelPredicate(event) ==
    LET r == LogLevelFilterPredicateCall(logLevelsByNamespace, event)
    IN  /\ last' = [Call("LogLevelFilterPredicate.__call__") EXCEPT
                      !.event = event,
                      \* event.get reads: the event keeps its fields
                      !.level = event.log_level,
                      !.namespace = event.log_namespace,
                      !.has_trace = event.has_trace,
                      !.trace = event.log_trace,
                      !.result = IF r = "KeyError" THEN "None" ELSE r,
                      !.raised = IF r = "KeyError" THEN r ELSE "None"]
        /\ UNCHANGED <<logLevelsByNamespace, defaultLogLevel, predicates, threads>>

\* a LogLevelFilterPredicate right after LogLevelFilterPredicate(defaultLogLevel)
Init ==
    /\ defaultLogLevel \in DefaultLevels
    /\ logLevelsByNamespace = LogLevelFilterPredicateInit(defaultLogLevel)
    /\ predicates = <<>>
    /\ caller = Supplied(<<>>)
    /\ last = Call("none")
    /\ writer = WriterIdle
    /\ reader = ReaderIdle

Configure ==
    \/ \E namespace \in SetNamespaces, level \in SetLevels :
           SetLogLevelForNamespace(namespace, level)
    \/ ClearLogLevels

\* the resolver: configuration calls and logLevelForNamespace
Next ==
    \/ Configure
    \/ \E namespace \in Namespaces : LogLevelForNamespace(namespace)

Spec == Init /\ [][Next]_vars

\* the level predicate: configuration calls and LogLevelFilterPredicate.__call__
NextPredicate ==
    \/ Configure
    \/ \E event \in LevelEvents : CallLevelPredicate(event)

SpecPredicate == Init /\ [][NextPredicate]_vars

\* the two read-only calls side by side, on short namespaces
NextReadOnly ==
    \/ Configure
    \/ \E namespace \in StringsUpTo(MaxEventNsLen) \cup {NoneKey} :
           LogLevelForNamespace(namespace)
    \/ \E event \in LevelEvents : CallLevelPredicate(event)

SpecReadOnly == Init /\ [][NextReadOnly]_vars

\* the events given to a FilteringLogObserver
FilterEvents ==
    {[log_level |-> l, log_namespace |-> n, has_trace |-> t[1], log_trace |-> t[2]] :
        l \in {"info", "error"},
        n \in {NoneKey, NsADotA},
        t \in {<<FALSE, <<>> >>, <<TRUE, <<"upstream">> >>}}

\* self._shouldLogEvent(event)
ShouldLogEvent(event) ==
    LET r == shouldLogEvent(logLevelsByNamespace, predicates, event)
    IN  /\ last' = [Call("shouldLogEvent") EXCEPT
                      !.event = event, !.result = r.result, !.raised = r.raised,
                      !.calls = r.calls, !.has_trace = event.has_trace,
                      !.trace = event.log_trace]
        /\ UNCHANGED <<logLevelsByNamespace, defaultLogLevel, predicates, threads>>

\* FilteringLogObserver.__call__(event)
Forward(event) ==
    LET r == FilteringLogObserverCall(logLevelsByNamespace, predicates, event)
    IN  /\ last' = [Call("FilteringLogObserver.__call__") EXCEPT
                      !.event = event, !.raised = r.raised, !.calls = r.calls,
                      !.has_trace = r.has_trace, !.trace = r.trace,
                      !.delivered = r.delivered]
        /\ UNCHANGED <<logLevelsByNamespace, defaultLogLevel, predicates, threads>>

\* a FilteringLogObserver right after FilteringLogObserver(observer, predicates);
\* "levelFilter" in the list is a fresh LogLevelFilterPredicate(defaultLogLevel)
InitFilter ==
    /\ defaultLogLevel \in DefaultLevels
    /\ logLevelsByNamespace = LogLevelFilterPredicateInit(defaultLogLevel)
    /\ \E preds \in ListsUpTo(MaxPreds) :
           /\ caller = Supplied(preds)
           /\ predicates = FilteringLogObserverInit(preds)
    /\ last = Call("none")
    /\ writer = WriterIdle
    /\ reader = ReaderIdle

NextFilter ==
    \/ \E level \in SetLevels : SetLogLevelForNamespace(NsA, level)
    \/ \E event \in FilterEvents : ShouldLogEvent(event)
    \/ \E event \in FilterEvents : Forward(event)

SpecFilter == InitFilter /\ [][NextFilter]_vars

----------------------------------------------------------------------------
(* A caller that keeps changing the list it gave to FilteringLogObserver *)

\* the predicates such a caller uses
CallerKinds == {"yes", "no", "maybe"}

CallerLists == {preds \in ListsUpTo(MaxCallerPreds) :
                   \A i \in 1..Len(preds) : preds[i] \in CallerKinds}

\* list.reverse()
RECURSIVE reversed(_)
reversed(list) ==
    IF Len(list) = 0 THEN <<>> ELSE Append(reversed(Tail(list)), Head(list))

\* del list[i]
without(list, i) == SubSeq(list, 1, i - 1) \o SubSeq(list, i + 1, Len(list))

\* the caller's list becomes changed; the observer's list follows only if it
\* is the same object
CallerChanges(changed) ==
    /\ caller' = [caller EXCEPT !.predicates = changed]
    /\ predicates' = IF FilteringLogObserverCopiesList THEN predicates ELSE changed
    /\ UNCHANGED <<logLevelsByNamespace, defaultLogLevel, last, writer, reader>>

CallerAppends(predicate) ==
    /\ Len(caller.predicates) <= MaxCallerPreds
    /\ CallerChanges(Append(caller.predicates, predicate))

CallerRemoves(i) == CallerChanges(without(caller.predicates, i))

CallerReverses == CallerChanges(reversed(caller.predicates))

\* a FilteringLogObserver right after FilteringLogObserver(observer, predicates)
InitFrozen ==
    /\ defaultLogLevel \in DefaultLevels
    /\ logLevelsByNamespace = LogLevelFilterPredicateInit(defaultLogLevel)
    /\ \E preds \in CallerLists :
           /\ caller = Supplied(preds)
           /\ predicates = FilteringLogObserverInit(preds)
    /\ last = Call("none")
    /\ writer = WriterIdle
    /\ reader = ReaderIdle

NextFrozen ==
    \/ \E predicate \in CallerKinds : CallerAppends(predicate)
    \/ \E i \in 1..Len(caller.predicates) : CallerRemoves(i)
    \/ CallerReverses
    \/ \E event \in FilterEvents : Forward(event)

SpecFrozen == InitFrozen /\ [][NextFrozen]_vars

----------------------------------------------------------------------------
(* Two threads on one LogLevelFilterPredicate: one in clearLogLevels, one in   *)
(* logLevelForNamespace.  A step is one operation on the dict, with the local *)
(* computation that leads to it; pc names the line of the next dict operation. *)

\* the mappings that up to n setLogLevelForNamespace calls leave behind
RECURSIVE MappingsAfter(_, _)
MappingsAfter(default, n) ==
    IF n = 0 THEN {LogLevelFilterPredicateInit(default)}
    ELSE LET earlier == MappingsAfter(default, n - 1)
         IN  earlier \cup
             {setLogLevelForNamespace(d, namespace, level).map :
                 d \in earlier, namespace \in SetNamespaces, level \in SetLevels}

\* line 181: self._logLevelsByNamespace.clear()
ClearBegin ==
    /\ writer.pc = "idle"
    /\ logLevelsByNamespace' = EmptyDict
    /\ writer' = [pc |-> "L182", before |-> logLevelsByNamespace]
    /\ UNCHANGED <<defaultLogLevel, predicates, caller, last, reader>>

\* line 182: self._logLevelsByNamespace[None] = self.defaultLogLevel
ClearEnd ==
    /\ writer.pc = "L182"
    /\ logLevelsByNamespace' = setitem(logLevelsByNamespace, NoneKey, defaultLogLevel)
    /\ writer' = [writer EXCEPT !.pc = "idle"]
    /\ UNCHANGED <<defaultLogLevel, predicates, caller, last, reader>>

\* the call, and line 140: if not namespace.  snapshots is history, not
\* program state: the levels that whole lookups of the namespace yield on the
\* mappings that exist while the call runs, when the caller keeps track
ReadCall(namespace, snapshots) ==
    /\ reader.pc \in {"idle", "done"}
    /\ reader' = [ReaderIdle EXCEPT
                      !.pc = IF Truthy(namespace) THEN "L143" ELSE "L141",
                      !.namespace = namespace,
                      !.snapshots = snapshots]
    /\ UNCHANGED <<logLevelsByNamespace, defaultLogLevel, predicates, caller, last, writer>>

ReadBegin(namespace) == ReadCall(namespace, {})

\* the same call, keeping track of the mapping it starts on
ReadBeginBesideSets(namespace) ==
    ReadCall(namespace, {logLevelForNamespace(logLevelsByNamespace, namespace)})

\* a whole setLogLevelForNamespace call of the other thread: its one dict
\* operation is the store of lines 172 and 174, so the call is one step; a
\* read in progress has one more mapping beside it
WriterSets(namespace, level) ==
    LET r == setLogLevelForNamespace(logLevelsByNamespace, namespace, level)
    IN  /\ writer.pc = "idle"
        /\ logLevelsByNamespace' = r.map
        /\ reader' =
               IF reader.pc \in {"idle", "done"}
               THEN reader
               ELSE [reader EXCEPT
                        !.snapshots =
                            @ \cup {logLevelForNamespace(r.map, reader.namespace)}]
        /\ UNCHANGED <<defaultLogLevel, predicates, caller, last, writer>>

\* return d[key]: the call ends with a level or with KeyError
ReadReturn(key) ==
    LET r == getitem(logLevelsByNamespace, key)
    IN  reader' = [reader EXCEPT !.pc = "done",
                                 !.result = IF r = "KeyError" THEN "None" ELSE r,
                                 !.raised = IF r = "KeyError" THEN r ELSE "None"]

\* lines 141 and 155: return self._logLevelsByNamespace[None]
ReadRoot ==
    /\ reader.pc \in {"L141", "L155"}
    /\ ReadReturn(NoneKey)
    /\ UNCHANGED <<logLevelsByNamespace, defaultLogLevel, predicates, caller, last, writer>>

\* line 143: if namespace in self._logLevelsByNamespace; else lines 146-147
TestExact ==
    /\ reader.pc = "L143"
    /\ reader' = IF reader.namespace \in DOMAIN logLevelsByNamespace
                  THEN [reader EXCEPT !.pc = "L144"]
                  ELSE LET segments == split(reader.namespace)
                       IN  [reader EXCEPT !.pc = "L149", !.segments = segments,
                                          !.index = Len(segments) - 1]
    /\ UNCHANGED <<logLevelsByNamespace, defaultLogLevel, predicates, caller, last, writer>>

\* line 144: return self._logLevelsByNamespace[namespace]
ReadExact ==
    /\ reader.pc = "L144"
    /\ ReadReturn(reader.namespace)
    /\ UNCHANGED <<logLevelsByNamespace, defaultLogLevel, predicates, caller, last, writer>>

\* lines 149-151 and 153: one turn of the loop up to its membership test
TestAncestor ==
    /\ reader.pc = "L149"
    /\ reader' =
           IF reader.index > 0
           THEN LET namespace == join(SubSeq(reader.segments, 1, reader.index))
                IN  IF namespace \in DOMAIN logLevelsByNamespace
                    THEN [reader EXCEPT !.pc = "L152", !.candidate = namespace]
                    ELSE [reader EXCEPT !.index = reader.index - 1]
           ELSE [reader EXCEPT !.pc = "L155"]
    /\ UNCHANGED <<logLevelsByNamespace, defaultLogLevel, predicates, caller, last, writer>>

\* line 152: return self._logLevelsByNamespace[namespace]
ReadAncestor ==
    /\ reader.pc = "L152"
    /\ ReadReturn(reader.candidate)
    /\ UNCHANGED <<logLevelsByNamespace, defaultLogLevel, predicates, caller, last, writer>>

\* a predicate configured by up to MaxSetup calls, before either thread starts
InitClearRace ==
    /\ defaultLogLevel \in DefaultLevels
    /\ logLevelsByNamespace \in MappingsAfter(defaultLogLevel, MaxSetup)
    /\ predicates = <<>>
    /\ caller = Supplied(<<>>)
    /\ last = Call("none")
    /\ writer = [pc |-> "idle", before |-> logLevelsByNamespace]
    /\ reader = ReaderIdle

NextClearRace ==
    \/ ClearBegin
    \/ ClearEnd
    \/ \E namespace \in Namespaces : ReadBegin(namespace)
    \/ ReadRoot
    \/ TestExact
    \/ ReadExact
    \/ TestAncestor
    \/ ReadAncestor

SpecClearRace == InitClearRace /\ [][NextClearRace]_vars

\* a new predicate; one thread sets levels, the other looks a namespace up
InitSetRace ==
    /\ defaultLogLevel \in DefaultLevels
    /\ logLevelsByNamespace = LogLevelFilterPredicateInit(defaultLogLevel)
    /\ predicates = <<>>
    /\ caller = Supplied(<<>>)
    /\ last = Call("none")
    /\ writer = WriterIdle
    /\ reader = ReaderIdle

NextSetRace ==
    \/ \E namespace \in SetNamespaces, level \in SetLevels :
           WriterSets(namespace, level)
    \/ \E namespace \in StringsUpTo(MaxEventNsLen) \cup {NoneKey} :
           ReadBeginBesideSets(namespace)
    \/ ReadRoot
    \/ TestExact
    \/ ReadExact
    \/ TestAncestor
    \/ ReadAncestor

SpecSetRace == InitSetRace /\ [][NextSetRace]_vars

----------------------------------------------------------------------------
(* Properties of the namespace -> level mapping *)

\* A is a proper dot-segment ancestor of N: N continues A with a dot
IsAncestor(A, N) ==
    /\ Len(A) < Len(N)
    /\ SubSeq(N, 1, Len(A)) = A
    /\ N[Len(A) + 1] = "."

\* the explicit entries of d that are ancestors of N
ConfiguredAncestors(d, N) == {A \in DOMAIN d \ {NoneKey} : IsAncestor(A, N)}

\* N has an explicit entry of its own
HasExactEntry(d, N) == Truthy(N) /\ N \in DOMAIN d

Resolved == last.op = "logLevelForNamespace"

\* C4: logLevelForNamespace(N) returns N's own entry when it has one, and
\* otherwise the level of the longest configured dot-segment ancestor of N.
NearestAncestorWins ==
    Resolved /\ Truthy(last.namespace) =>
        LET N == last.namespace
            d == logLevelsByNamespace
            ancestors == ConfiguredAncestors(d, N)
        IN  /\ HasExactEntry(d, N) => last.result = d[N]
            /\ ~HasExactEntry(d, N) =>
                   \A A \in ancestors :
                       (\A B \in ancestors : Len(B) <= Len(A)) => last.result = d[A]

\* "a.a.a" resolved with "a" and "a.a" configured at different levels
NearestAncestorWitness ==
    /\ Resolved
    /\ ~HasExactEntry(logLevelsByNamespace, last.namespace)
    /\ ConfiguredAncestors(logLevelsByNamespace, last.namespace) = {NsA, NsADotA}
    /\ logLevelsByNamespace[NsA] # logLevelsByNamespace[NsADotA]
    /\ last.result = logLevelsByNamespace[NsADotA]

\* C5: logLevelForNamespace(N) returns the root level when N has no entry of
\* its own and no configured dot-segment ancestor: None, "", and names that
\* only share leading characters with a configured key.
RootFallback ==
    /\ Resolved
    /\ ~HasExactEntry(logLevelsByNamespace, last.namespace)
    /\ ConfiguredAncestors(logLevelsByNamespace, last.namespace) = {}
    => /\ last.raised = "None"
       /\ last.result = logLevelsByNamespace[NoneKey]

\* "aa" resolved to the root level while "a" is configured at another level
RootFallbackWitness ==
    /\ Resolved
    /\ last.namespace = NsAA
    /\ NsA \in DOMAIN logLevelsByNamespace
    /\ logLevelsByNamespace[NsA] # logLevelsByNamespace[NoneKey]
    /\ last.result = logLevelsByNamespace[NoneKey]

\* C7: after clearLogLevels the mapping is that of a fresh predicate with the
\* same default: no explicit entry, the root at defaultLogLevel, and every
\* namespace resolving to defaultLogLevel.
ClearRestoresDefault ==
    last.op = "clearLogLevels" =>
        /\ DOMAIN logLevelsByNamespace = {NoneKey}
        /\ logLevelsByNamespace[NoneKey] = defaultLogLevel
        /\ logLevelsByNamespace = LogLevelFilterPredicateInit(defaultLogLevel)
        /\ \A N \in Namespaces :
               logLevelForNamespace(logLevelsByNamespace, N) = defaultLogLevel

\* a clear that found two explicit entries and a root level set away from the default
ClearRestoresDefaultWitness ==
    /\ last.op = "clearLogLevels"
    /\ DOMAIN last.before = {NoneKey, NsA, NsADotA}
    /\ last.before[NoneKey] # defaultLogLevel
    /\ logLevelsByNamespace = LogLevelFilterPredicateInit(defaultLogLevel)

\* C8: setLogLevelForNamespace with a level outside LogLevel raises
\* InvalidLogLevelError and leaves the mapping as it found it.
InvalidLevelRejected ==
    last.op = "setLogLevelForNamespace" /\ last.level \notin LogLevel =>
        /\ last.raised = "InvalidLogLevelError"
        /\ logLevelsByNamespace = last.before

\* a rejected call on a configured namespace, with the root level set as well
InvalidLevelRejectedWitness ==
    /\ last.op = "setLogLevelForNamespace"
    /\ last.raised = "InvalidLogLevelError"
    /\ last.namespace = NsA
    /\ NsA \in DOMAIN logLevelsByNamespace
    /\ logLevelsByNamespace[NoneKey] # defaultLogLevel
    /\ logLevelsByNamespace = last.before

\* C9: the root key is always in the mapping and holds a LogLevel, as does
\* every entry, so logLevelForNamespace never fails and returns a LogLevel.
RootAlwaysDefined ==
    /\ NoneKey \in DOMAIN logLevelsByNamespace
    /\ \A k \in DOMAIN logLevelsByNamespace : logLevelsByNamespace[k] \in LogLevel
    /\ Resolved => last.raised = "None" /\ last.result \in LogLevel

\* a lookup answered by the root key right after clearLogLevels had removed entries
RootAlwaysDefinedWitness ==
    /\ Resolved
    /\ last.namespace = NsADotA
    /\ DOMAIN logLevelsByNamespace = {NoneKey}
    /\ last.result = logLevelsByNamespace[NoneKey]

\* the ancestor search ran: the namespace is not None or "" and has no entry
Searched ==
    /\ Resolved
    /\ Truthy(last.namespace)
    /\ ~HasExactEntry(logLevelsByNamespace, last.namespace)

\* the keys tested are dot-segment prefixes of N, from the longest down, none
\* left out, up to and including the first configured one, whose level is the
\* result; with none configured the result is the root level
TestedNearestFirst(d, N, tested, result) ==
    /\ \A i \in 1..Len(tested) : IsAncestor(tested[i], N)
    /\ \A i, j \in 1..Len(tested) : i < j => Len(tested[i]) > Len(tested[j])
    /\ \A i \in 1..Len(tested) : tested[i] \in DOMAIN d => i = Len(tested)
    /\ \A p \in 1..Len(N) :
           N[p] = "." =>
               \/ \E i \in 1..Len(tested) : tested[i] = SubSeq(N, 1, p - 1)
               \/ \E i \in 1..Len(tested) :
                      tested[i] \in DOMAIN d /\ Len(tested[i]) > p - 1
    /\ result = IF tested # <<>> /\ tested[Len(tested)] \in DOMAIN d
                THEN d[tested[Len(tested)]]
                ELSE d[NoneKey]

\* C17, as claimed: the search tests the dot-segment prefixes nearest first,
\* never the namespace itself, and never the empty string.
SearchNeverTestsEmptyString ==
    Searched =>
        /\ TestedNearestFirst(logLevelsByNamespace, last.namespace,
                              last.tested, last.result)
        /\ \A i \in 1..Len(last.tested) :
               last.tested[i] # last.namespace /\ last.tested[i] # <<>>

\* C17, amended: the search tests the dot-segment prefixes nearest first and
\* never the namespace itself; it tests the empty string only for a namespace
\* that begins with a dot, as its last candidate, and then returns the root
\* level, "" never being a key.
SearchTestsProperPrefixes ==
    Searched =>
        /\ TestedNearestFirst(logLevelsByNamespace, last.namespace,
                              last.tested, last.result)
        /\ \A i \in 1..Len(last.tested) :
               /\ last.tested[i] # last.namespace
               /\ last.tested[i] = <<>> =>
                      /\ last.namespace[1] = "."
                      /\ i = Len(last.tested)
                      /\ last.result = logLevelsByNamespace[NoneKey]

\* ".a.a" with "a" configured: the search tests ".a" and then ""
SearchTestsProperPrefixesWitness ==
    /\ Searched
    /\ last.namespace = <<".", "a", ".", "a">>
    /\ NsA \in DOMAIN logLevelsByNamespace
    /\ last.tested = << <<".", "a">>, <<>> >>
    /\ last.result = logLevelsByNamespace[NoneKey]

\* the key a namespace argument stands for: the root key for None and ""
KeyOf(namespace) == IF Truthy(namespace) THEN namespace ELSE NoneKey

\* C16: a successful setLogLevelForNamespace(N, L) makes N (the root, for None
\* and "") resolve to L, and the entry stays as it is through every call but a
\* successful setLogLevelForNamespace on the same key and clearLogLevels; no
\* entry is ever stored under "".
LastWriteWins ==
    [][LET before == logLevelsByNamespace
           after == logLevelsByNamespace'
           wrote == /\ last'.op = "setLogLevelForNamespace"
                    /\ last'.raised = "None"
           key == KeyOf(last'.namespace)
       IN  /\ wrote =>
                  /\ getitem(after, key) = last'.level
                  /\ logLevelForNamespace(after, last'.namespace) = last'.level
                  /\ ~Truthy(last'.namespace) =>
                         /\ logLevelForNamespace(after, NoneKey) = last'.level
                         /\ logLevelForNamespace(after, <<>>) = last'.level
           /\ <<>> \notin DOMAIN after
           /\ \A N \in DOMAIN before :
                  \/ last'.op = "clearLogLevels"
                  \/ wrote /\ key = N
                  \/ /\ getitem(after, N) = before[N]
                     /\ logLevelForNamespace(after, N) = before[N]
      ]_vars

\* "a" still resolves to its own level with "a.a" and the root set to others
LastWriteWinsWitness ==
    /\ Resolved
    /\ last.namespace = NsA
    /\ DOMAIN logLevelsByNamespace = {NoneKey, NsA, NsADotA}
    /\ logLevelsByNamespace[NsA] # logLevelsByNamespace[NsADotA]
    /\ logLevelsByNamespace[NsA] # logLevelsByNamespace[NoneKey]
    /\ logLevelsByNamespace[NoneKey] # defaultLogLevel
    /\ last.result = logLevelsByNamespace[NsA]

\* the namespaces whose level a successful set of key K may change, given the
\* mapping d the call found: K itself and the descendants of K that have no
\* entry and no configured ancestor nearer than K; for the root key, the
\* namespaces with no entry and no configured ancestor
MayChange(d, K, M) ==
    IF K = NoneKey
    THEN ~HasExactEntry(d, M) /\ ConfiguredAncestors(d, M) = {}
    ELSE \/ M = K
         \/ /\ Truthy(M)
            /\ IsAncestor(K, M)
            /\ ~HasExactEntry(d, M)
            /\ \A A \in ConfiguredAncestors(d, M) : Len(A) <= Len(K)

\* the namespaces that resolve differently after the last call than before it
Changed ==
    {M \in Namespaces :
        logLevelForNamespace(logLevelsByNamespace, M) #
            logLevelForNamespace(last.before, M)}

\* C18: a successful setLogLevelForNamespace(K, L) changes the resolved level
\* of no namespace other than K and the descendants of K that K is the nearest
\* configured ancestor of; on the root, of no namespace that has an entry or a
\* configured ancestor.
SetChangesOnlyItsSubtree ==
    last.op = "setLogLevelForNamespace" /\ last.raised = "None" =>
        \A M \in Changed : MayChange(last.before, KeyOf(last.namespace), M)

\* setting "a" beside a configured "a.a" changes "a" and "a.aa", and leaves
\* "a.a", "a.a.a" and "aa" as they were
SetChangesOnlyItsSubtreeWitness ==
    /\ last.op = "setLogLevelForNamespace"
    /\ last.raised = "None"
    /\ last.namespace = NsA
    /\ NsADotA \in DOMAIN last.before
    /\ last.level # last.before[NsADotA]
    /\ {NsA, NsADotAA} \subseteq Changed
    /\ Changed \cap {NoneKey, NsAA, NsADotA, NsADotA \o <<".", "a">>} = {}

----------------------------------------------------------------------------
(* Properties of LogLevelFilterPredicate.__call__ *)

\* C6: the level predicate returns "no" exactly when the event has no level,
\* or no namespace, or a level of lower priority than its namespace's level;
\* otherwise "maybe"; never "yes".
DeniesBelowThreshold ==
    last.op = "LogLevelFilterPredicate.__call__" =>
        LET e == last.event
            threshold == logLevelForNamespace(logLevelsByNamespace, e.log_namespace)
            below == /\ e.log_level # "None"
                     /\ \E i, j \in DOMAIN LogLevelConstants :
                            /\ LogLevelConstants[i] = e.log_level
                            /\ LogLevelConstants[j] = threshold
                            /\ i < j
        IN  /\ last.raised = "None"
            /\ last.result \in {"no", "maybe"}
            /\ last.result = "no" <=>
                   (e.log_level = "None" \/ e.log_namespace = NoneKey \/ below)

\* an event exactly at the threshold inherited from "a" is not denied
DeniesBelowThresholdWitness ==
    /\ last.op = "LogLevelFilterPredicate.__call__"
    /\ last.event.log_namespace = NsADotA
    /\ DOMAIN logLevelsByNamespace = {NoneKey, NsA}
    /\ logLevelsByNamespace[NsA] = "error"
    /\ last.event.log_level = "error"
    /\ last.result = "maybe"

ReadOnlyCalls == {"logLevelForNamespace", "LogLevelFilterPredicate.__call__"}

\* C19: logLevelForNamespace and LogLevelFilterPredicate.__call__ change
\* neither the mapping nor the default level nor the event, and the same call
\* made again right away gives the same result.
ReadsChangeNothing ==
    [][last'.op \in ReadOnlyCalls =>
          /\ logLevelsByNamespace' = logLevelsByNamespace
          /\ defaultLogLevel' = defaultLogLevel
          /\ last'.before = logLevelsByNamespace
          /\ last'.op = "LogLevelFilterPredicate.__call__" =>
                 /\ last'.level = last'.event.log_level
                 /\ last'.namespace = last'.event.log_namespace
                 /\ last'.has_trace = last'.event.has_trace
                 /\ last'.trace = last'.event.log_trace
          /\ /\ last.op = last'.op
             /\ last.namespace = last'.namespace
             /\ last.event = last'.event
             => last'.result = last.result /\ last'.raised = last.raised
      ]_vars

\* a lookup of "a.a" answered through the ancestor "a", with the mapping left
\* as the call found it
ReadsChangeNothingWitness ==
    /\ Resolved
    /\ last.namespace = NsADotA
    /\ DOMAIN logLevelsByNamespace = {NoneKey, NsA}
    /\ last.before = logLevelsByNamespace
    /\ last.result = logLevelsByNamespace[NsA]
    /\ last.result # logLevelsByNamespace[NoneKey]

----------------------------------------------------------------------------
(* Properties of shouldLogEvent and FilteringLogObserver.__call__ *)

\* what each predicate of the observer returns for the event of the last call
PredicateResults ==
    [i \in 1..Len(predicates) |->
        callPredicate(logLevelsByNamespace, predicates[i], last.event)]

\* predicate k is the first with an opinion, and the opinion is yes or no
FirstDecisive(k) ==
    /\ PredicateResults[k] \in {"yes", "no"}
    /\ \A j \in 1..(k - 1) : PredicateResults[j] = "maybe"

\* C1: shouldLogEvent returns the opinion of the first predicate that does not
\* abstain, having invoked the predicates up to that one once each, in order,
\* and none after it.
FirstOpinionDecides ==
    last.op = "shouldLogEvent" =>
        \A k \in 1..Len(predicates) :
            FirstDecisive(k) =>
                /\ last.raised = "None"
                /\ last.result = IF PredicateResults[k] = "yes" THEN "True" ELSE "False"
                /\ last.calls = [i \in 1..k |-> i]

\* the level predicate abstains, the second predicate allows, a third is not asked
FirstOpinionDecidesWitness ==
    /\ last.op = "shouldLogEvent"
    /\ predicates = <<"levelFilter", "yes", "no">>
    /\ PredicateResults[1] = "maybe"
    /\ last.result = "True"
    /\ last.calls = <<1, 2>>

\* C2: when every predicate abstains, and when there is none, shouldLogEvent
\* returns True.
AllAbstainPermits ==
    /\ last.op = "shouldLogEvent"
    /\ \A i \in 1..Len(predicates) : PredicateResults[i] = "maybe"
    => /\ last.raised = "None"
       /\ last.result = "True"
       /\ last.calls = [i \in 1..Len(predicates) |-> i]

\* three abstaining predicates, the level predicate among them
AllAbstainPermitsWitness ==
    /\ last.op = "shouldLogEvent"
    /\ predicates = <<"maybe", "levelFilter", "maybe">>
    /\ \A i \in 1..Len(predicates) : PredicateResults[i] = "maybe"
    /\ last.result = "True"

\* C3: forwarding an accepted event that carries a trace list appends one
\* entry to the list, calls the wrapped observer once, and raises nothing.
AcceptedEventTracedAndDelivered ==
    /\ last.op = "FilteringLogObserver.__call__"
    /\ last.event.has_trace
    /\ shouldLogEvent(logLevelsByNamespace, predicates, last.event).result = "True"
    => /\ last.raised = "None"
       /\ last.trace = Append(last.event.log_trace, TraceEntry)
       /\ last.delivered = 1

Forwarded == last.op = "FilteringLogObserver.__call__"

\* what shouldLogEvent makes of the event of the last call
Decision == shouldLogEvent(logLevelsByNamespace, predicates, last.event)

\* C12: when the predicates decide against an event, forwarding it does
\* nothing: the wrapped observer is not called, the event's trace list is as it
\* was, and nothing is raised.
DroppedEventUntouched ==
    Forwarded /\ Decision.result = "False" =>
        /\ last.raised = "None"
        /\ last.delivered = 0
        /\ last.has_trace = last.event.has_trace
        /\ last.trace = last.event.log_trace

\* an "info" event of "a.a" that carries a trace list, denied by the level
\* predicate on the threshold "error" inherited from "a"
DroppedEventUntouchedWitness ==
    /\ Forwarded
    /\ predicates = <<"levelFilter", "yes">>
    /\ DOMAIN logLevelsByNamespace = {NoneKey, NsA}
    /\ logLevelsByNamespace[NsA] = "error"
    /\ last.event.log_namespace = NsADotA
    /\ last.event.log_level = "info"
    /\ last.event.has_trace
    /\ Decision.result = "False"
    /\ last.delivered = 0

\* predicate k is reached and returns something that is no PredicateResult
FirstInvalid(k) ==
    /\ PredicateResults[k] = "invalid"
    /\ \A j \in 1..(k - 1) : PredicateResults[j] = "maybe"

\* C13: a predicate that is reached and returns a value outside yes/no/maybe
\* makes shouldLogEvent raise; the error leaves FilteringLogObserver.__call__
\* with no later predicate invoked, nothing appended to the trace list, and the
\* wrapped observer not called.
InvalidResultRaises ==
    last.op = "shouldLogEvent" \/ Forwarded =>
        \A k \in 1..Len(predicates) :
            FirstInvalid(k) =>
                /\ last.raised = "TypeError"
                /\ last.calls = [i \in 1..k |-> i]
                /\ last.delivered = 0
                /\ last.trace = last.event.log_trace

\* the second of three predicates returns an invalid value for a traced event
InvalidResultRaisesWitness ==
    /\ Forwarded
    /\ predicates = <<"levelFilter", "invalid", "yes">>
    /\ FirstInvalid(2)
    /\ last.event.has_trace
    /\ last.raised = "TypeError"
    /\ last.calls = <<1, 2>>

\* C15: forwarding an event that has no trace list leaves it without one,
\* whether the event is dropped or delivered, and an accepted event is
\* delivered to the wrapped observer once.
TraceFieldNeverCreated ==
    Forwarded /\ ~last.event.has_trace =>
        /\ ~last.has_trace
        /\ last.trace = last.event.log_trace
        /\ Decision.result = "True" => last.raised = "None" /\ last.delivered = 1
        /\ Decision.result # "True" => last.delivered = 0

\* an event with no trace list passes the level predicate and is delivered
TraceFieldNeverCreatedWitness ==
    /\ Forwarded
    /\ ~last.event.has_trace
    /\ predicates = <<"levelFilter">>
    /\ last.event.log_namespace = NsADotA
    /\ Decision.result = "True"
    /\ ~last.has_trace
    /\ last.delivered = 1

\* C14: the observer evaluates the predicates it was constructed with, in the
\* order they were given, whatever the caller has since appended to, removed
\* from or reordered in its own list.
FrozenAtConstruction ==
    /\ predicates = caller.supplied
    /\ Forwarded =>
           LET expected == FilteringLogObserverCall(logLevelsByNamespace,
                                                    caller.supplied, last.event)
           IN  /\ last.calls = expected.calls
               /\ last.raised = expected.raised
               /\ last.delivered = expected.delivered

\* constructed with [maybe, yes]; the caller's list is by now [no, maybe]; an
\* event is still accepted by the second predicate and delivered
FrozenAtConstructionWitness ==
    /\ Forwarded
    /\ caller.supplied = <<"maybe", "yes">>
    /\ caller.predicates = <<"no", "maybe">>
    /\ last.calls = <<1, 2>>
    /\ last.delivered = 1

----------------------------------------------------------------------------
(* Properties of logLevelForNamespace running beside clearLogLevels *)

\* C10: a logLevelForNamespace call that runs beside clearLogLevels does not
\* fail on a missing key, and returns what it would have returned before the
\* clear (writer.before is the mapping the clear found) or the default level.
ReadNeverSeesHalfClearedMapping ==
    reader.pc = "done" =>
        /\ reader.raised = "None"
        /\ reader.result \in
               {logLevelForNamespace(writer.before, reader.namespace), defaultLogLevel}

----------------------------------------------------------------------------
(* Properties of logLevelForNamespace running beside setLogLevelForNamespace *)

\* C11: a logLevelForNamespace(N) call that runs beside a sequence of
\* setLogLevelForNamespace calls returns a level that a whole lookup of N
\* yields on one of the mappings that existed during the call.
ReadReturnsSnapshotLevel ==
    reader.pc = "done" =>
        /\ reader.raised = "None"
        /\ reader.result \in reader.snapshots

====
